---- MODULE Spec2Model ----
(***************************************************************************)
(* Breeding lifecycle and alert scheduling of PigMasterAPI                 *)
(* (BreedingService in src/unnamed/part_005, tables of the migrations in   *)
(* src/unnamed/part_000).                                                  *)
(*                                                                         *)
(* Tables are sequences; a row's id is its index.  Instants are hours      *)
(* since an epoch at a UTC midnight, DATE columns are day numbers; the     *)
(* server's zone is UTC.                                                   *)
(***************************************************************************)
EXTENDS Integers, Sequences, FiniteSets, TLC

VARIABLES
  breeding_records,  \* table breeding_records
  alerts,            \* table alerts
  notifications,     \* table notifications
  pigs,              \* table pigs, keyed by pig_id
  piglet_records,    \* table piglet_records
  pig_birth_history, \* table pig_birth_history
  last,              \* outcome of the most recent service call
  calls,             \* number of calls that wrote to the tables
  reqs               \* requests in flight (stepwise specification only)

vars == <<breeding_records, alerts, notifications, pigs, piglet_records,
          pig_birth_history, last, calls, reqs>>

tables == <<breeding_records, alerts, notifications, pigs, piglet_records,
            pig_birth_history>>

\* ---------------------------------------------------------------- bounds
MaxCalls == 3        \* calls that write to the tables
MaxRequests == 2     \* requests in flight together
MaxLaterCalls == 2   \* calls that write, in a herd with litter history

\* ---------------------------------------------------------------- values
NULL == 0 - 1        \* SQL NULL / JS undefined
INVALID == 0 - 2     \* a value dayjs cannot parse
NoId == ""           \* a missing identifier

HoursPerDay == 24

Farms == {"F1", "F2"}
PigIds == {"S1", "S2", "S3", "B1", "B2"}

\* The pigs registered in the two farms.
pigFarm(p) == IF p \in {"S1", "S2", "B1"} THEN "F1" ELSE "F2"
pigGender(p) == IF p \in {"S1", "S2", "S3"} THEN "female" ELSE "male"
pigPen(p) == IF p = "S2" THEN NULL ELSE 1

\* dayjs(x).add(n, "day")
addDays(t, n) == t + n * HoursPerDay

\* dayjs(date).utc().format("YYYY-MM-DD"): the UTC calendar day of an instant
getUTCDateString(t) == t \div HoursPerDay

\* a DATE column keeps the calendar day of the instant written to it
toDateColumn(t) == IF t = NULL THEN NULL ELSE t \div HoursPerDay

\* a DATE column is read back as the midnight that starts its day
fromDateColumn(d) == d * HoursPerDay

isValid(t) == t # INVALID /\ t # NULL

\* ------------------------------------------------------- program constants
PregnancyCheckDays == 21
NestingBoxDay == 110
BirthCheckCount == 5
WeaningDays == 42
RestDays == 7
FosteringDays == 4
NestingRemovalDays == 20
MinLitter == 5
MaxLitter == 10
CullGenerations == 3

\* ------------------------------------------------------------------ Init
InitPig(p) ==
  [pig_id |-> p, farm_id |-> pigFarm(p), gender |-> pigGender(p),
   pen_id |-> pigPen(p), is_pregnant |-> (pigGender(p) = "female"),
   pregnancy_start_date |-> IF pigGender(p) = "female" THEN 0 ELSE NULL,
   expected_birth_date |-> IF pigGender(p) = "female" THEN 114 ELSE NULL,
   actual_birth_date |-> NULL, is_deleted |-> 0]

Requests == 1..MaxRequests

\* a request slot: the handler it runs, the statement it is at, its
\* arguments and local variables; writes counts the statements of the call
\* that wrote, raced tells an insert made while another request for the
\* same sow stood between its eligibility read and its insert (both are
\* history fields)
Idle ==
  [op |-> "none", pc |-> "idle", args |-> <<>>, rec |-> 0, sow |-> NoId,
   old |-> <<>>, reason |-> "none", pen |-> NULL, k |-> 0, writes |-> 0,
   raced |-> FALSE]

NoCall == [op |-> "none", ok |-> TRUE, err |-> "none", rec |-> 0]

Init ==
  /\ breeding_records = <<>>
  /\ alerts = <<>>
  /\ notifications = <<>>
  /\ pigs = [p \in PigIds |-> InitPig(p)]
  /\ piglet_records = <<>>
  /\ pig_birth_history = <<>>
  /\ last = NoCall
  /\ calls = 0
  /\ reqs = [p \in Requests |-> Idle]

\* ------------------------------------------------------------ call results
Returned(op, rec) ==
  [op |-> op, ok |-> TRUE, err |-> "none", rec |-> rec]

\* throw new ValidationError(msg): the call ends with the error's class
Thrown(op, msg, rec) ==
  [op |-> op, ok |-> FALSE, err |-> "ValidationError", rec |-> rec]

\* ------------------------------------------------------------ AlertService
\* AlertService.createAlert: the alert is persisted with status pending.
\* The field rec is a history field (no column): the breeding record whose
\* call created the alert.
createAlert(al, spec) ==
  Append(al, [pig_id |-> spec.pig_id, farm_id |-> spec.farm_id,
              pen_id |-> spec.pen_id, name |-> spec.name,
              alert_type |-> spec.alert_type, severity |-> spec.severity,
              alert_start_date |-> spec.alert_start_date,
              notify_on |-> spec.notify_on, status |-> "pending",
              is_deleted |-> FALSE, rec |-> spec.rec])

\* for (const alert of alerts) await AlertService.createAlert(alert)
RECURSIVE createAlerts(_, _)
createAlerts(al, specs) ==
  IF specs = <<>> THEN al
  ELSE createAlerts(createAlert(al, Head(specs)), Tail(specs))

\* ------------------------------------------------- createBreedingRecord
\* SELECT 1 FROM pigs WHERE pig_id = $1 AND farm_id = $2 AND gender = $3
pigFound(pg, id, farm, gender) ==
  /\ id \in DOMAIN pg
  /\ pg[id].farm_id = farm
  /\ pg[id].gender = gender
  /\ pg[id].is_deleted = 0

\* the resolved, not deleted breeding records of a sow in a farm
resolvedRecords(br, sow, farm) ==
  {i \in DOMAIN br : /\ br[i].sow_id = sow
                     /\ br[i].farm_id = farm
                     /\ br[i].actual_birth_date # NULL
                     /\ br[i].is_deleted = 0}

\* ORDER BY actual_birth_date DESC LIMIT 1
lastBirthDate(br, sow, farm) ==
  LET R == resolvedRecords(br, sow, farm)
  IN CHOOSE d \in {br[i].actual_birth_date : i \in R} :
       \A i \in R : br[i].actual_birth_date <= d

\* mutant: the rest period left out of the window (weaning only)
servedTooSoon_weaningOnly(br, sow, farm, mating_date) ==
  /\ resolvedRecords(br, sow, farm) # {}
  /\ mating_date <
       addDays(fromDateColumn(lastBirthDate(br, sow, farm)), WeaningDays)

\* matingDateUTC.isBefore(lastBirth + 42 days + 7 days)
servedTooSoon(br, sow, farm, mating_date) ==
  /\ resolvedRecords(br, sow, farm) # {}
  /\ mating_date <
       addDays(addDays(fromDateColumn(lastBirthDate(br, sow, farm)),
                       WeaningDays), RestDays)

\* the checks of createBreedingRecord in the order the code makes them
matingError(br, pg, farm, sow, boar, mating_date, expected, notify) ==
  IF farm = NoId \/ sow = NoId \/ boar = NoId \/ mating_date = NULL
       \/ expected = NULL
  THEN "Missing required breeding record fields"
  ELSE IF ~isValid(mating_date) THEN "Invalid mating_date format"
  ELSE IF ~isValid(expected) THEN "Invalid expected_birth_date format"
  ELSE IF notify # NULL /\ ~isValid(notify)
  THEN "Invalid immediate_notify_date format"
  ELSE IF ~pigFound(pg, sow, farm, "female") THEN "Sow not found or invalid"
  ELSE IF ~pigFound(pg, boar, farm, "male") THEN "Boar not found or invalid"
  ELSE IF servedTooSoon(br, sow, farm, mating_date)
  THEN "Sow cannot be served within 1 week of weaning"
  ELSE "none"

\* mutant: the caller's date is not looked at
notifyOnDate_ignoringOverride(mating_date, notify) ==
  getUTCDateString(mating_date)

\* notifyOnDate: the caller's date, or the mating date
notifyOnDate(mating_date, notify) ==
  IF notify # NULL THEN getUTCDateString(notify)
  ELSE getUTCDateString(mating_date)

\* INSERT INTO breeding_records ... alert_date = mating date + 21 days
insertBreedingRecord(br, farm, sow, boar, mating_date, expected) ==
  Append(br, [farm_id |-> farm, sow_id |-> sow, boar_id |-> boar,
              mating_date |-> toDateColumn(mating_date),
              expected_birth_date |-> toDateColumn(expected),
              actual_birth_date |-> NULL, number_of_piglets |-> NULL,
              alert_date |->
                toDateColumn(addDays(mating_date, PregnancyCheckDays)),
              is_deleted |-> 0])

\* SELECT pen_id FROM pigs WHERE pig_id = $1 AND farm_id = $2
penOf(pg, pig, farm) ==
  IF pig \in DOMAIN pg /\ pg[pig].farm_id = farm /\ pg[pig].is_deleted = 0
  THEN pg[pig].pen_id ELSE NULL

\* an alert due on the calendar day of instant t, notified the day before
\* and on the day
scheduledAlert(farm, pig, pen, name, type, severity, t, rec) ==
  [farm_id |-> farm, pig_id |-> pig, pen_id |-> pen, name |-> name,
   alert_type |-> type, severity |-> severity,
   alert_start_date |-> getUTCDateString(t),
   notify_on |-> {getUTCDateString(addDays(t, 0 - 1)), getUTCDateString(t)},
   rec |-> rec]

\* the "Breeding Success" alert
breedingSuccessAlert(farm, sow, pen, mating_date, notify, rec) ==
  [farm_id |-> farm, pig_id |-> sow, pen_id |-> pen,
   name |-> "Breeding Success", alert_type |-> "breeding",
   severity |-> "medium",
   alert_start_date |-> getUTCDateString(mating_date),
   notify_on |-> {notifyOnDate(mating_date, notify)}, rec |-> rec]

\* mutant: the birth checks counted from 1 instead of 0 (days 111..115)
birthCheckAlerts_fromOne(farm, sow, pen, mating_date, rec) ==
  [i \in 1..BirthCheckCount |->
     scheduledAlert(farm, sow, pen, "Check Birth", "birth", "high",
                    addDays(mating_date, NestingBoxDay + i), rec)]

\* Array.from({ length: 5 }, ...): the birth checks of days 110..114
birthCheckAlerts(farm, sow, pen, mating_date, rec) ==
  [i \in 1..BirthCheckCount |->
     scheduledAlert(farm, sow, pen, "Check Birth", "birth", "high",
                    addDays(mating_date, NestingBoxDay + (i - 1)), rec)]

\* the alerts of one mating, in the order they are created
matingAlerts(farm, sow, pen, mating_date, notify, rec) ==
  <<breedingSuccessAlert(farm, sow, pen, mating_date, notify, rec),
    scheduledAlert(farm, sow, pen, "Add Nesting Box", "breeding", "high",
                   addDays(mating_date, NestingBoxDay), rec)>>
  \o birthCheckAlerts(farm, sow, pen, mating_date, rec)

\* mutant: the record is inserted before the checks are made
createBreedingRecord_insertFirst(farm, sow, boar, mating_date, expected, notify) ==
  LET err == matingError(breeding_records, pigs, farm, sow, boar,
                         mating_date, expected, notify)
      id == Len(breeding_records) + 1
  IN /\ calls < MaxCalls
     /\ calls' = calls + 1
     /\ breeding_records' =
          insertBreedingRecord(breeding_records, farm, sow, boar,
                               mating_date, expected)
     /\ IF err # "none"
        THEN /\ last' = Thrown("createBreedingRecord", err, 0)
             /\ UNCHANGED alerts
        ELSE /\ alerts' =
                  createAlerts(alerts,
                    matingAlerts(farm, sow, penOf(pigs, sow, farm),
                                 mating_date, notify, id))
             /\ last' = Returned("createBreedingRecord", id)
     /\ UNCHANGED <<notifications, pigs, piglet_records,
                    pig_birth_history, reqs>>

createBreedingRecord(farm, sow, boar, mating_date, expected, notify) ==
  LET err == matingError(breeding_records, pigs, farm, sow, boar,
                         mating_date, expected, notify)
      id == Len(breeding_records) + 1
  IN IF err # "none"
     THEN /\ last' = Thrown("createBreedingRecord", err, 0)
          /\ UNCHANGED <<tables, calls, reqs>>
     ELSE /\ calls < MaxCalls
          /\ calls' = calls + 1
          /\ breeding_records' =
               insertBreedingRecord(breeding_records, farm, sow, boar,
                                    mating_date, expected)
          /\ alerts' =
               createAlerts(alerts,
                 matingAlerts(farm, sow, penOf(pigs, sow, farm),
                              mating_date, notify, id))
          /\ last' = Returned("createBreedingRecord", id)
          /\ UNCHANGED <<notifications, pigs, piglet_records,
                         pig_birth_history, reqs>>

\* ------------------------------------------------- updateBreedingRecord
\* SELECT ... FROM breeding_records WHERE id = $1 AND farm_id = $2
\*   AND is_deleted = 0
recordFound(br, recordId, farmId) ==
  /\ recordId \in DOMAIN br
  /\ br[recordId].farm_id = farmId
  /\ br[recordId].is_deleted = 0

\* the results the query ORDER BY actual_birth_date DESC LIMIT 3 can give:
\* rows of equal date come in any order
pastRecords(br, sow, farm) ==
  LET R == resolvedRecords(br, sow, farm)
      k == IF Cardinality(R) < CullGenerations THEN Cardinality(R)
           ELSE CullGenerations
  IN {T \in SUBSET R :
        /\ Cardinality(T) = k
        /\ \A i \in T : \A j \in R \ T :
             br[i].actual_birth_date >= br[j].actual_birth_date}

\* .map(r => r.number_of_piglets || 0).filter(n => n > 0)
litters(br, T) ==
  {i \in T : br[i].number_of_piglets # NULL /\ br[i].number_of_piglets > 0}

\* litters.length >= 3 && litters.every(n => n < 5)
lowOverGenerations(br, T) ==
  /\ Cardinality(litters(br, T)) >= CullGenerations
  /\ \A i \in litters(br, T) : br[i].number_of_piglets < MinLitter

\* number_of_piglets < 5 || number_of_piglets > 10
litterOutOfRange(n) == n < MinLitter \/ n > MaxLitter

\* the culling branch taken: Rule A, else the litter-size rule, else none
cullingReason(br, T, n) ==
  IF lowOverGenerations(br, T) THEN "low litter size over 3 generations"
  ELSE IF litterOutOfRange(n) THEN "litter size"
  ELSE "none"

\* INSERT INTO notifications (... 'culling_alert', ..., 'high', ...)
insertNotification(nt, reason, sow, farm) ==
  IF reason = "none" THEN nt
  ELSE Append(nt, [type |-> "culling_alert", priority |-> "high",
                   reason |-> reason, sow_id |-> sow, farm_id |-> farm])

\* UPDATE pigs SET is_pregnant = false, pregnancy_start_date = NULL,
\*   expected_birth_date = NULL, actual_birth_date = $1
clearPregnancyAtBirth(pg, sow, farm, birth) ==
  [p \in DOMAIN pg |->
     IF p = sow /\ pg[p].farm_id = farm /\ pg[p].is_deleted = 0
     THEN [pg[p] EXCEPT !.is_pregnant = FALSE,
                        !.pregnancy_start_date = NULL,
                        !.expected_birth_date = NULL,
                        !.actual_birth_date = toDateColumn(birth)]
     ELSE pg[p]]

\* mutant: the cancellation scan without its pig_id condition
completePregnancyAlerts_anyPig(al, sow) ==
  [i \in DOMAIN al |->
     IF /\ al[i].alert_type = "breeding"
        /\ al[i].status = "pending"
        /\ al[i].is_deleted = FALSE
     THEN [al[i] EXCEPT !.status = "completed"]
     ELSE al[i]]

\* UPDATE alerts SET status = 'completed' WHERE pig_id = $1
\*   AND alert_type = 'breeding' AND status = 'pending'
completePregnancyAlerts(al, sow) ==
  [i \in DOMAIN al |->
     IF /\ al[i].pig_id = sow
        /\ al[i].alert_type = "breeding"
        /\ al[i].status = "pending"
        /\ al[i].is_deleted = FALSE
     THEN [al[i] EXCEPT !.status = "completed"]
     ELSE al[i]]

\* the post-birth alerts, in the order they are created
birthAlerts(farm, sow, pen, birth, rec) ==
  <<scheduledAlert(farm, sow, pen, "Fostering Check", "birth", "medium",
                   addDays(birth, FosteringDays), rec),
    scheduledAlert(farm, sow, pen, "Remove Nesting Box", "birth", "medium",
                   addDays(birth, NestingRemovalDays), rec),
    scheduledAlert(farm, sow, pen, "Wean Piglets", "birth", "high",
                   addDays(birth, WeaningDays), rec)>>

\* if (actual_birth_date && number_of_piglets)
birthCascade(birth, n) == birth # NULL /\ n # NULL /\ n # 0

\* UPDATE breeding_records SET actual_birth_date = $1,
\*   number_of_piglets = $2 WHERE id = $4 AND farm_id = $5 AND is_deleted = 0
\* with $1 = actual_birth_date || breedingRecord.actual_birth_date and
\* $2 = number_of_piglets || breedingRecord.number_of_piglets, where
\* breedingRecord (old) is the row read when the call began
setBirthOutcome(br, recordId, farmId, birth, n, old) ==
  [i \in DOMAIN br |->
     IF i = recordId /\ br[i].farm_id = farmId /\ br[i].is_deleted = 0
     THEN [br[i] EXCEPT
             !.actual_birth_date =
               IF birth # NULL THEN toDateColumn(birth)
               ELSE old.actual_birth_date,
             !.number_of_piglets =
               IF n # NULL /\ n # 0 THEN n ELSE old.number_of_piglets]
     ELSE br[i]]

updateBreedingRecord(recordId, farmId, birth, n) ==
  IF ~recordFound(breeding_records, recordId, farmId)
  THEN /\ last' = Thrown("updateBreedingRecord",
                         "Breeding record not found", recordId)
       /\ UNCHANGED <<tables, calls, reqs>>
  ELSE LET sow == breeding_records[recordId].sow_id
       IN /\ calls < MaxCalls
          /\ calls' = calls + 1
          /\ IF birthCascade(birth, n)
             THEN /\ \E T \in pastRecords(breeding_records, sow, farmId) :
                       notifications' =
                         insertNotification(notifications,
                           cullingReason(breeding_records, T, n),
                           sow, farmId)
                  /\ pigs' = clearPregnancyAtBirth(pigs, sow, farmId, birth)
                  /\ alerts' =
                       createAlerts(completePregnancyAlerts(alerts, sow),
                         birthAlerts(farmId, sow, penOf(pigs, sow, farmId),
                                     birth, recordId))
             ELSE UNCHANGED <<notifications, pigs, alerts>>
          /\ breeding_records' =
               setBirthOutcome(breeding_records, recordId, farmId, birth, n,
                               breeding_records[recordId])
          /\ last' = Returned("updateBreedingRecord", recordId)
          /\ UNCHANGED <<piglet_records, pig_birth_history, reqs>>

\* ------------------------------------------------- deleteBreedingRecord
\* UPDATE breeding_records SET is_deleted = 1 WHERE id = $1 AND farm_id = $2
softDeleteRecord(br, recordId, farmId) ==
  [i \in DOMAIN br |->
     IF i = recordId /\ br[i].farm_id = farmId /\ br[i].is_deleted = 0
     THEN [br[i] EXCEPT !.is_deleted = 1]
     ELSE br[i]]

\* mutant: the piglet records of the deleted record are left alone
softDeletePiglets_none(pl, recordId) == pl

\* UPDATE piglet_records SET is_deleted = 1 WHERE breeding_record_id = $1
softDeletePiglets(pl, recordId) ==
  [i \in DOMAIN pl |->
     IF pl[i].breeding_record_id = recordId /\ pl[i].is_deleted = 0
     THEN [pl[i] EXCEPT !.is_deleted = 1]
     ELSE pl[i]]

\* UPDATE pigs SET is_pregnant = false, pregnancy_start_date = NULL,
\*   expected_birth_date = NULL
clearPregnancy(pg, sow, farm) ==
  [p \in DOMAIN pg |->
     IF p = sow /\ pg[p].farm_id = farm /\ pg[p].is_deleted = 0
     THEN [pg[p] EXCEPT !.is_pregnant = FALSE,
                        !.pregnancy_start_date = NULL,
                        !.expected_birth_date = NULL]
     ELSE pg[p]]

\* mutant: the rejection scan with the type condition of the completion scan
rejectAlerts_breedingOnly(al, sow) ==
  [i \in DOMAIN al |->
     IF /\ al[i].pig_id = sow
        /\ al[i].alert_type = "breeding"
        /\ al[i].status = "pending"
        /\ al[i].is_deleted = FALSE
     THEN [al[i] EXCEPT !.status = "rejected"]
     ELSE al[i]]

\* mutant: the rejection scan without its status condition
rejectAlerts_anyStatus(al, sow) ==
  [i \in DOMAIN al |->
     IF /\ al[i].pig_id = sow
        /\ al[i].alert_type \in {"breeding", "birth"}
        /\ al[i].is_deleted = FALSE
     THEN [al[i] EXCEPT !.status = "rejected"]
     ELSE al[i]]

\* UPDATE alerts SET status = 'rejected' WHERE pig_id = $1
\*   AND alert_type IN ('breeding', 'birth') AND status = 'pending'
rejectAlerts(al, sow) ==
  [i \in DOMAIN al |->
     IF /\ al[i].pig_id = sow
        /\ al[i].alert_type \in {"breeding", "birth"}
        /\ al[i].status = "pending"
        /\ al[i].is_deleted = FALSE
     THEN [al[i] EXCEPT !.status = "rejected"]
     ELSE al[i]]

deleteBreedingRecord(recordId, farmId) ==
  IF ~recordFound(breeding_records, recordId, farmId)
  THEN /\ last' = Thrown("deleteBreedingRecord",
                         "Breeding record not found", recordId)
       /\ UNCHANGED <<tables, calls, reqs>>
  ELSE LET sow == breeding_records[recordId].sow_id
       IN /\ calls < MaxCalls
          /\ calls' = calls + 1
          /\ breeding_records' =
               softDeleteRecord(breeding_records, recordId, farmId)
          /\ piglet_records' = softDeletePiglets(piglet_records, recordId)
          /\ IF breeding_records[recordId].actual_birth_date = NULL
             THEN /\ pigs' = clearPregnancy(pigs, sow, farmId)
                  /\ alerts' = rejectAlerts(alerts, sow)
             ELSE UNCHANGED <<pigs, alerts>>
          /\ last' = Returned("deleteBreedingRecord", recordId)
          /\ UNCHANGED <<notifications, pig_birth_history, reqs>>

\* --------------------------------------------------- createPigletRecord
\* the batch entries that name breeding record id
entriesFor(pigletz, id) ==
  {k \in DOMAIN pigletz : pigletz[k].breeding_record_id = id}

\* SELECT COUNT(*) FROM piglet_records WHERE breeding_record_id = $1
\*   AND is_deleted = 0
pigletCount(pl, id) ==
  Cardinality({i \in DOMAIN pl :
                 pl[i].breeding_record_id = id /\ pl[i].is_deleted = 0})

\* currentPigletCount + newPigletsForRecord > (number_of_piglets || 0) + 1
exceedsLitter(br, pl, pigletz, id) ==
  pigletCount(pl, id) + Cardinality(entriesFor(pigletz, id)) >
    (IF br[id].number_of_piglets = NULL THEN 0
     ELSE br[id].number_of_piglets) + 1

\* SELECT piglet_number FROM piglet_records WHERE farm_id = $1
\*   AND piglet_number = ANY($2) AND is_deleted = 0
duplicateNumbers(pl, pigletz, farm) ==
  {pl[i].piglet_number : i \in
     {j \in DOMAIN pl : /\ pl[j].farm_id = farm
                        /\ pl[j].is_deleted = 0
                        /\ \E k \in DOMAIN pigletz :
                             pigletz[k].piglet_number = pl[j].piglet_number}}

\* the parent ids the batch supplies
parentIds(pigletz) ==
  ({pigletz[k].parent_male_id : k \in DOMAIN pigletz}
   \cup {pigletz[k].parent_female_id : k \in DOMAIN pigletz}) \ {NoId}

\* SELECT pig_id, gender FROM pigs WHERE farm_id = $1 AND pig_id = ANY($2)
foundIds(pg, ids, farm) ==
  {p \in ids : p \in DOMAIN pg /\ pg[p].farm_id = farm /\ pg[p].is_deleted = 0}

\* the checks createPigletRecord makes before it writes, in code order
pigletError(br, pl, pg, pigletz, farm) ==
  LET ids == {pigletz[k].breeding_record_id : k \in DOMAIN pigletz}
      sowId == pigletz[1].parent_female_id
  IN IF farm \notin Farms THEN "Farm not found"
     ELSE IF pigletz = <<>> THEN "pigletz array is required"
     ELSE IF \E k \in DOMAIN pigletz : pigletz[k].breeding_record_id = 0
     THEN "breeding_record_id is required for each piglet"
     ELSE IF \E k \in DOMAIN pigletz : pigletz[k].piglet_number = 0
     THEN "piglet_number is required for each piglet"
     ELSE IF \E id \in ids : ~recordFound(br, id, farm)
     THEN "One or more breeding records not found"
     ELSE IF \E id \in ids : exceedsLitter(br, pl, pigletz, id)
     THEN "Total piglets significantly exceed breeding record litter size"
     ELSE IF duplicateNumbers(pl, pigletz, farm) # {}
     THEN "Duplicate piglet numbers"
     ELSE IF (parentIds(pigletz) \ foundIds(pg, parentIds(pigletz), farm)) # {}
     THEN "Invalid parent IDs"
     ELSE IF /\ parentIds(pigletz) # {}
             /\ sowId # NoId
             /\ pg[sowId].gender # "female"
     THEN "Parent female ID is not a sow"
     ELSE "none"

\* SELECT id FROM pig_birth_history WHERE breeding_record_id = $1
\*   AND is_deleted = 0
historyFound(h, id) ==
  \E i \in DOMAIN h : h[i].breeding_record_id = id /\ h[i].is_deleted = 0

\* weaningDate of one piglet: its own actual_birth_date + 42 days, or null
pigletWeaningDate(birth) ==
  IF birth = NULL THEN NULL ELSE toDateColumn(addDays(birth, WeaningDays))

\* mutant: the history row inserted without looking for an existing one
insertPiglet_newHistory(st, br, pigletz, farm, k) ==
  LET e == pigletz[k]
      id == e.breeding_record_id
  IN IF br[id].sow_id # e.parent_female_id
     THEN [st EXCEPT !.err = "Breeding record does not match sow"]
     ELSE IF e.actual_birth_date = NULL
     THEN [st EXCEPT !.err = "null value in column birth_date"]
     ELSE [h |-> Append(st.h,
                   [farm_id |-> farm, sow_id |-> e.parent_female_id,
                    breeding_record_id |-> id,
                    birth_date |-> toDateColumn(e.actual_birth_date),
                    number_of_piglets |->
                      Cardinality(entriesFor(pigletz, id)),
                    is_deleted |-> 0]),
           pl |-> Append(st.pl,
                    [breeding_record_id |-> id, farm_id |-> farm,
                     piglet_number |-> e.piglet_number,
                     weaning_date |-> pigletWeaningDate(e.actual_birth_date),
                     parent_male_id |-> e.parent_male_id,
                     parent_female_id |-> e.parent_female_id,
                     is_deleted |-> 0]),
           err |-> "none"]

\* one turn of the loop over pigletz; st = [h, pl, err] carries the two
\* tables and the error that stopped the loop
insertPiglet(st, br, pigletz, farm, k) ==
  LET e == pigletz[k]
      id == e.breeding_record_id
  IN IF br[id].sow_id # e.parent_female_id
     THEN [st EXCEPT !.err = "Breeding record does not match sow"]
     ELSE IF ~historyFound(st.h, id) /\ e.actual_birth_date = NULL
     THEN [st EXCEPT !.err = "null value in column birth_date"]
     ELSE [h |-> IF historyFound(st.h, id) THEN st.h
                 ELSE Append(st.h,
                        [farm_id |-> farm,
                         sow_id |-> IF e.parent_female_id # NoId
                                    THEN e.parent_female_id
                                    ELSE br[id].sow_id,
                         breeding_record_id |-> id,
                         birth_date |-> toDateColumn(e.actual_birth_date),
                         number_of_piglets |->
                           Cardinality(entriesFor(pigletz, id)),
                         is_deleted |-> 0]),
           pl |-> Append(st.pl,
                    [breeding_record_id |-> id, farm_id |-> farm,
                     piglet_number |-> e.piglet_number,
                     weaning_date |-> pigletWeaningDate(e.actual_birth_date),
                     parent_male_id |-> e.parent_male_id,
                     parent_female_id |-> e.parent_female_id,
                     is_deleted |-> 0]),
           err |-> "none"]

\* for (const piglet of pigletz) { ... }: stops at the first throw and
\* keeps what the earlier turns wrote
RECURSIVE insertPiglets(_, _, _, _, _)
insertPiglets(st, br, pigletz, farm, k) ==
  IF k > Len(pigletz) \/ st.err # "none" THEN st
  ELSE insertPiglets(insertPiglet(st, br, pigletz, farm, k),
                     br, pigletz, farm, k + 1)

\* the "Relocate Piglets" alert, due at the first entry's weaning date
relocateAlert(pg, pigletz, farm, now) ==
  LET birth == IF pigletz[1].actual_birth_date = NULL THEN now
               ELSE pigletz[1].actual_birth_date
      sow == pigletz[1].parent_female_id
  IN scheduledAlert(farm, sow, penOf(pg, sow, farm), "Relocate Piglets",
                    "birth", "medium", addDays(birth, WeaningDays),
                    pigletz[1].breeding_record_id)

\* return { success: false, message }
Failed(op, msg) ==
  [op |-> op, ok |-> FALSE, err |-> "success: false", rec |-> 0]

createPigletRecord(pigletz, farm, now) ==
  LET err == pigletError(breeding_records, piglet_records, pigs, pigletz, farm)
      st == insertPiglets([h |-> pig_birth_history, pl |-> piglet_records,
                           err |-> "none"],
                          breeding_records, pigletz, farm, 1)
  IN IF err # "none"
     THEN /\ last' = Failed("createPigletRecord", err)
          /\ UNCHANGED <<tables, calls, reqs>>
     ELSE /\ calls < MaxCalls
          /\ calls' = calls + 1
          /\ pig_birth_history' = st.h
          /\ piglet_records' = st.pl
          /\ IF st.err # "none"
             THEN /\ last' = Failed("createPigletRecord", st.err)
                  /\ UNCHANGED alerts
             ELSE /\ alerts' =
                       createAlert(alerts,
                                   relocateAlert(pigs, pigletz, farm, now))
                  /\ last' = Returned("createPigletRecord",
                                      pigletz[1].breeding_record_id)
          /\ UNCHANGED <<breeding_records, notifications, pigs, reqs>>

\* ---------------------------------------------------------------- inputs
at(day, hour) == day * HoursPerDay + hour

MatingRequest(farm, sow, boar, mating_date, expected, notify) ==
  [farm_id |-> farm, sow_id |-> sow, boar_id |-> boar,
   mating_date |-> mating_date, expected_birth_date |-> expected,
   immediate_notify_date |-> notify]

\* the matings submitted: four that pass every check on an empty farm, and
\* one for each check that can refuse a request
MatingRequests ==
  {MatingRequest("F1", "S1", "B1", at(0, 0), at(114, 0), NULL),
   MatingRequest("F1", "S1", "B1", at(170, 9), at(284, 0), at(171, 0)),
   MatingRequest("F1", "S2", "B1", at(0, 0), at(114, 0), NULL),
   MatingRequest("F2", "S3", "B2", at(0, 0), at(114, 0), NULL),
   MatingRequest("F1", "S1", "B1", at(0, 0), NULL, NULL),
   MatingRequest("F1", "S1", "B1", INVALID, at(114, 0), NULL),
   MatingRequest("F1", "S1", "B1", at(0, 0), INVALID, NULL),
   MatingRequest("F1", "S1", "B1", at(0, 0), at(114, 0), INVALID),
   MatingRequest("F2", "S1", "B2", at(0, 0), at(114, 0), NULL),
   MatingRequest("F1", "B1", "B1", at(0, 0), at(114, 0), NULL),
   MatingRequest("F1", "S1", "S2", at(0, 0), at(114, 0), NULL),
   MatingRequest("F1", "S1", "B2", at(0, 0), at(114, 0), NULL)}

\* the birth outcomes submitted: actual_birth_date and number_of_piglets
BirthRequests ==
  {[actual_birth_date |-> at(121, 6), number_of_piglets |-> 4],
   [actual_birth_date |-> at(121, 6), number_of_piglets |-> 6],
   [actual_birth_date |-> at(121, 6), number_of_piglets |-> 0],
   [actual_birth_date |-> NULL, number_of_piglets |-> 6]}

\* the ids of the records inserted so far, and one that names no record
RecordIds == 1..(Len(breeding_records) + 1)

\* ------------------------------------------------------------------ Next
recordMating ==
  \E r \in MatingRequests :
    createBreedingRecord(r.farm_id, r.sow_id, r.boar_id, r.mating_date,
                         r.expected_birth_date, r.immediate_notify_date)

recordBirthOutcome ==
  \E recordId \in RecordIds, farmId \in Farms, r \in BirthRequests :
    updateBreedingRecord(recordId, farmId, r.actual_birth_date,
                         r.number_of_piglets)

deleteRecord ==
  \E recordId \in RecordIds, farmId \in Farms :
    deleteBreedingRecord(recordId, farmId)

Next == recordMating \/ recordBirthOutcome \/ deleteRecord

Spec == Init /\ [][Next]_vars

\* ------------------------------------------------ litters: the batches
PigletEntry(id, number, sow, birth) ==
  [breeding_record_id |-> id, piglet_number |-> number,
   parent_male_id |-> NoId, parent_female_id |-> sow,
   actual_birth_date |-> birth]

sowOf(id) ==
  IF id \in DOMAIN breeding_records THEN breeding_records[id].sow_id
  ELSE "S1"

\* the batches submitted for breeding record id: one piglet, two piglets,
\* the same number twice, a second entry naming another sow, an entry
\* without parents, an entry without a birth date
BatchesFor(id) ==
  {<<PigletEntry(id, 1, sowOf(id), at(121, 6))>>,
   <<PigletEntry(id, 1, sowOf(id), at(121, 6)),
     PigletEntry(id, 2, sowOf(id), at(121, 6))>>,
   <<PigletEntry(id, 1, sowOf(id), at(121, 6)),
     PigletEntry(id, 1, sowOf(id), at(121, 6))>>,
   <<PigletEntry(id, 1, sowOf(id), at(121, 6)),
     PigletEntry(id, 2, "S3", at(121, 6))>>,
   <<PigletEntry(id, 1, NoId, at(121, 6))>>,
   <<PigletEntry(id, 2, sowOf(id), NULL)>>}

Clock == {at(130, 12)}

registerLitter ==
  \E id \in RecordIds, farm \in Farms, now \in Clock :
    \E pigletz \in BatchesFor(id) :
      createPigletRecord(pigletz, farm, now)

NextLitter == Next \/ registerLitter

SpecLitter == Init /\ [][NextLitter]_vars

\* ------------------------------------------- a herd with litter history
\* The tables after earlier calls, as a record [br, al, nt, pg]: what
\* createBreedingRecord and updateBreedingRecord leave behind.
afterMating(T, farm, sow, boar, mating_date, expected, notify) ==
  [T EXCEPT
     !.br = insertBreedingRecord(T.br, farm, sow, boar, mating_date, expected),
     !.al = createAlerts(T.al,
              matingAlerts(farm, sow, penOf(T.pg, sow, farm), mating_date,
                           notify, Len(T.br) + 1))]

afterBirth(T, recordId, farmId, birth, n) ==
  LET sow == T.br[recordId].sow_id
      P == CHOOSE P \in pastRecords(T.br, sow, farmId) : TRUE
      U == [T EXCEPT !.br = setBirthOutcome(T.br, recordId, farmId, birth, n,
                                            T.br[recordId])]
  IN IF birthCascade(birth, n)
     THEN [U EXCEPT
             !.nt = insertNotification(T.nt, cullingReason(T.br, P, n),
                                       sow, farmId),
             !.pg = clearPregnancyAtBirth(T.pg, sow, farmId, birth),
             !.al = createAlerts(completePregnancyAlerts(T.al, sow),
                      birthAlerts(farmId, sow, penOf(T.pg, sow, farmId),
                                  birth, recordId))]
     ELSE U

\* a litter is born 121 days after its mating, and the sow is mated again
\* on the first day the rest period allows
FarrowingDay == 121
CycleDays == FarrowingDay + WeaningDays + RestDays

\* sow S1 of farm F1 after the litters of sizes, oldest first; size 0 is a
\* birth recorded with no piglets
RECURSIVE afterLitters(_, _, _)
afterLitters(T, sizes, k) ==
  IF k > Len(sizes) THEN T
  ELSE afterLitters(
         afterBirth(
           afterMating(T, "F1", "S1", "B1", at(CycleDays * (k - 1), 0),
                       at(CycleDays * (k - 1) + 114, 0), NULL),
           Len(T.br) + 1, "F1", at(CycleDays * (k - 1) + FarrowingDay, 6),
           sizes[k]),
         sizes, k + 1)

Histories ==
  {<<>>, <<6, 7>>, <<4, 3, 4>>, <<4, 3, 0, 4>>, <<3, 4, 4, 6>>}

\* the state after the litters of one of the histories of H
InitAfter(H) ==
  /\ \E h \in H :
       LET T == afterLitters([br |-> <<>>, al |-> <<>>, nt |-> <<>>,
                              pg |-> [p \in PigIds |-> InitPig(p)]], h, 1)
       IN /\ breeding_records = T.br
          /\ alerts = T.al
          /\ notifications = T.nt
          /\ pigs = T.pg
  /\ piglet_records = <<>>
  /\ pig_birth_history = <<>>
  /\ last = NoCall
  /\ calls = 0
  /\ reqs = [p \in Requests |-> Idle]

InitHistory == InitAfter(Histories)

\* the last farrowing day of sow S1, day 0 - 49 when she has none
lastFarrowing ==
  IF resolvedRecords(breeding_records, "S1", "F1") = {}
  THEN 0 - (WeaningDays + RestDays)
  ELSE lastBirthDate(breeding_records, "S1", "F1")

\* S1 is mated again late on the 48th day after her last farrowing, at
\* the start of the 49th, or on the 50th
remate ==
  /\ calls < MaxLaterCalls
  /\ \E m \in {at(lastFarrowing + 48, 23), at(lastFarrowing + 49, 0),
                at(lastFarrowing + 50, 0)} :
       createBreedingRecord("F1", "S1", "B1", m, addDays(m, 114), NULL)

LitterSizes == {0, 4, 6, 12}

\* a birth outcome 121 days after the mating of the record
farrow ==
  /\ calls < MaxLaterCalls
  /\ \E recordId \in RecordIds, n \in LitterSizes :
       updateBreedingRecord(recordId, "F1",
         IF recordId \in DOMAIN breeding_records
         THEN at(breeding_records[recordId].mating_date + FarrowingDay, 6)
         ELSE at(FarrowingDay, 6), n)

cancel ==
  /\ calls < MaxLaterCalls
  /\ \E recordId \in RecordIds : deleteBreedingRecord(recordId, "F1")

NextHistory == remate \/ farrow \/ cancel

SpecHistory == InitHistory /\ [][NextHistory]_vars

\* ------------------------------------------- litters of a farrowed sow
\* sow S1 has farrowed once, a litter of 6 or of 4
FarrowedLitters == {<<6>>, <<4>>}

InitRegistrar == InitAfter(FarrowedLitters)

\* the batches submitted for breeding record id: piglets 1..6 together,
\* piglet 7, piglet 8, piglet 1 once more, number 9 twice in one batch,
\* a batch whose second entry names another sow of the farm, a piglet
\* dated two days after the farrowing, and a piglet without a birth date
LitterBatches(id) ==
  {[k \in 1..6 |-> PigletEntry(id, k, sowOf(id), at(FarrowingDay, 6))],
   <<PigletEntry(id, 7, sowOf(id), at(FarrowingDay, 6))>>,
   <<PigletEntry(id, 8, sowOf(id), at(FarrowingDay, 6))>>,
   <<PigletEntry(id, 1, sowOf(id), at(FarrowingDay, 6))>>,
   <<PigletEntry(id, 9, sowOf(id), at(FarrowingDay, 6)),
     PigletEntry(id, 9, sowOf(id), at(FarrowingDay, 6))>>,
   <<PigletEntry(id, 10, sowOf(id), at(FarrowingDay, 6)),
     PigletEntry(id, 11, "S2", at(FarrowingDay, 6))>>,
   <<PigletEntry(id, 12, sowOf(id), at(FarrowingDay + 2, 6))>>,
   <<PigletEntry(id, 13, sowOf(id), NULL)>>}

registerBatch ==
  \E id \in RecordIds, now \in Clock :
    \E pigletz \in LitterBatches(id) :
      /\ \/ calls < MaxLaterCalls
         \/ pigletError(breeding_records, piglet_records, pigs, pigletz,
                        "F1") # "none"
      /\ createPigletRecord(pigletz, "F1", now)

\* piglet 7 of a record of farm F1 submitted under farm F2
registerElsewhere ==
  \E id \in RecordIds, now \in Clock :
    createPigletRecord(<<PigletEntry(id, 7, sowOf(id), at(FarrowingDay, 6))>>,
                       "F2", now)

\* S1 is mated again on the 49th day after her last farrowing, the
\* confirmation notified on the mating day or, on request, the day after
mateNotified ==
  /\ calls < MaxLaterCalls
  /\ LET m == at(lastFarrowing + 49, 9)
     IN \E notify \in {NULL, addDays(m, 1)} :
          createBreedingRecord("F1", "S1", "B1", m, addDays(m, 114), notify)

NextRegistrar ==
  registerBatch \/ registerElsewhere \/ farrow \/ cancel \/ mateNotified

SpecRegistrar == InitRegistrar /\ [][NextRegistrar]_vars

\* =========================================================== stepwise
\* The same two handlers, one database statement (one await) a step, so
\* that requests interleave and a statement can fail.  A failed statement
\* throws: the handler logs and rethrows, and nothing is undone.

\* ---- createBreedingRecord, statement by statement
beginMating(p, r) ==
  /\ reqs[p].pc = "idle"
  /\ reqs' = [reqs EXCEPT ![p] =
       [Idle EXCEPT !.op = "createBreedingRecord", !.args = r,
                    !.sow = r.sow_id,
                    !.pc = IF \/ r.mating_date = NULL
                              \/ r.expected_birth_date = NULL
                              \/ ~isValid(r.mating_date)
                              \/ ~isValid(r.expected_birth_date)
                              \/ (r.immediate_notify_date # NULL
                                  /\ ~isValid(r.immediate_notify_date))
                           THEN "failed" ELSE "sow"]]
  /\ UNCHANGED <<tables, last, calls>>

selectSow(p) ==
  /\ reqs[p].op = "createBreedingRecord" /\ reqs[p].pc = "sow"
  /\ reqs' = [reqs EXCEPT ![p].pc =
       IF pigFound(pigs, reqs[p].args.sow_id, reqs[p].args.farm_id, "female")
       THEN "boar" ELSE "failed"]
  /\ UNCHANGED <<tables, last, calls>>

selectBoar(p) ==
  /\ reqs[p].op = "createBreedingRecord" /\ reqs[p].pc = "boar"
  /\ reqs' = [reqs EXCEPT ![p].pc =
       IF pigFound(pigs, reqs[p].args.boar_id, reqs[p].args.farm_id, "male")
       THEN "recent" ELSE "failed"]
  /\ UNCHANGED <<tables, last, calls>>

selectRecentService(p) ==
  /\ reqs[p].op = "createBreedingRecord" /\ reqs[p].pc = "recent"
  /\ reqs' = [reqs EXCEPT ![p].pc =
       IF servedTooSoon(breeding_records, reqs[p].args.sow_id,
                        reqs[p].args.farm_id, reqs[p].args.mating_date)
       THEN "failed" ELSE "insert"]
  /\ UNCHANGED <<tables, last, calls>>

insertRecord(p) ==
  /\ reqs[p].op = "createBreedingRecord" /\ reqs[p].pc = "insert"
  /\ breeding_records' =
       insertBreedingRecord(breeding_records, reqs[p].args.farm_id,
         reqs[p].args.sow_id, reqs[p].args.boar_id,
         reqs[p].args.mating_date, reqs[p].args.expected_birth_date)
  /\ reqs' = [reqs EXCEPT ![p].pc = "pen",
                          ![p].rec = Len(breeding_records) + 1,
                          ![p].writes = @ + 1,
                          ![p].raced =
                            \E q \in Requests \ {p} :
                              /\ reqs[q].op = "createBreedingRecord"
                              /\ reqs[q].pc = "insert"
                              /\ reqs[q].sow = reqs[p].sow]
  /\ UNCHANGED <<alerts, notifications, pigs, piglet_records,
                 pig_birth_history, last, calls>>

\* SELECT pen_id FROM pigs, in either handler
selectPen(p) ==
  /\ reqs[p].pc = "pen"
  /\ reqs' = [reqs EXCEPT ![p].pc = "alert", ![p].k = 1,
                          ![p].pen = penOf(pigs, reqs[p].sow,
                                           reqs[p].args.farm_id)]
  /\ UNCHANGED <<tables, last, calls>>

\* the alerts the request is creating
alertsOf(q) ==
  IF q.op = "createBreedingRecord"
  THEN matingAlerts(q.args.farm_id, q.sow, q.pen, q.args.mating_date,
                    q.args.immediate_notify_date, q.rec)
  ELSE birthAlerts(q.args.farm_id, q.sow, q.pen, q.args.actual_birth_date,
                   q.args.recordId)

\* one AlertService.createAlert of the loop, in either handler
insertAlert(p) ==
  /\ reqs[p].pc = "alert"
  /\ alerts' = createAlert(alerts, alertsOf(reqs[p])[reqs[p].k])
  /\ reqs' = [reqs EXCEPT ![p].k = @ + 1, ![p].writes = @ + 1,
                          ![p].pc =
                            IF reqs[p].k < Len(alertsOf(reqs[p])) THEN "alert"
                            ELSE IF reqs[p].op = "createBreedingRecord"
                            THEN "done" ELSE "update"]
  /\ UNCHANGED <<breeding_records, notifications, pigs, piglet_records,
                 pig_birth_history, last, calls>>

\* ---- updateBreedingRecord, statement by statement
BirthCall(recordId, farmId, r) ==
  [recordId |-> recordId, farm_id |-> farmId,
   actual_birth_date |-> r.actual_birth_date,
   number_of_piglets |-> r.number_of_piglets]

beginBirth(p, recordId, farmId, r) ==
  /\ reqs[p].pc = "idle"
  /\ reqs' = [reqs EXCEPT ![p] =
       [Idle EXCEPT !.op = "updateBreedingRecord",
                    !.args = BirthCall(recordId, farmId, r),
                    !.pc = "record"]]
  /\ UNCHANGED <<tables, last, calls>>

\* selectRecord with the record update as the first statement after the
\* read
selectRecord_updateFirst(p) ==
  /\ reqs[p].op = "updateBreedingRecord" /\ reqs[p].pc = "record"
  /\ LET a == reqs[p].args
     IN reqs' = [reqs EXCEPT ![p] =
          IF ~recordFound(breeding_records, a.recordId, a.farm_id)
          THEN [@ EXCEPT !.pc = "failed"]
          ELSE [@ EXCEPT !.old = breeding_records[a.recordId],
                         !.sow = breeding_records[a.recordId].sow_id,
                         !.pc = "update"]]
  /\ UNCHANGED <<tables, last, calls>>

selectRecord(p) ==
  /\ reqs[p].op = "updateBreedingRecord" /\ reqs[p].pc = "record"
  /\ LET a == reqs[p].args
     IN reqs' = [reqs EXCEPT ![p] =
          IF ~recordFound(breeding_records, a.recordId, a.farm_id)
          THEN [@ EXCEPT !.pc = "failed"]
          ELSE [@ EXCEPT !.old = breeding_records[a.recordId],
                         !.sow = breeding_records[a.recordId].sow_id,
                         !.pc = IF birthCascade(a.actual_birth_date,
                                                a.number_of_piglets)
                                THEN "past" ELSE "update"]]
  /\ UNCHANGED <<tables, last, calls>>

selectPastRecords(p) ==
  /\ reqs[p].op = "updateBreedingRecord" /\ reqs[p].pc = "past"
  /\ \E T \in pastRecords(breeding_records, reqs[p].sow,
                          reqs[p].args.farm_id) :
       LET reason == cullingReason(breeding_records, T,
                                   reqs[p].args.number_of_piglets)
       IN reqs' = [reqs EXCEPT ![p].reason = reason,
                               ![p].pc = IF reason = "none" THEN "pigs"
                                         ELSE "notify"]
  /\ UNCHANGED <<tables, last, calls>>

insertCullingNotification(p) ==
  /\ reqs[p].op = "updateBreedingRecord" /\ reqs[p].pc = "notify"
  /\ notifications' =
       insertNotification(notifications, reqs[p].reason, reqs[p].sow,
                          reqs[p].args.farm_id)
  /\ reqs' = [reqs EXCEPT ![p].pc = "pigs", ![p].writes = @ + 1]
  /\ UNCHANGED <<breeding_records, alerts, pigs, piglet_records,
                 pig_birth_history, last, calls>>

updatePig(p) ==
  /\ reqs[p].op = "updateBreedingRecord" /\ reqs[p].pc = "pigs"
  /\ pigs' = clearPregnancyAtBirth(pigs, reqs[p].sow, reqs[p].args.farm_id,
                                   reqs[p].args.actual_birth_date)
  /\ reqs' = [reqs EXCEPT ![p].pc = "complete", ![p].writes = @ + 1]
  /\ UNCHANGED <<breeding_records, alerts, notifications, piglet_records,
                 pig_birth_history, last, calls>>

updateAlerts(p) ==
  /\ reqs[p].op = "updateBreedingRecord" /\ reqs[p].pc = "complete"
  /\ alerts' = completePregnancyAlerts(alerts, reqs[p].sow)
  /\ reqs' = [reqs EXCEPT ![p].pc = "pen", ![p].writes = @ + 1]
  /\ UNCHANGED <<breeding_records, notifications, pigs, piglet_records,
                 pig_birth_history, last, calls>>

updateRecord(p) ==
  /\ reqs[p].op = "updateBreedingRecord" /\ reqs[p].pc = "update"
  /\ breeding_records' =
       setBirthOutcome(breeding_records, reqs[p].args.recordId,
                       reqs[p].args.farm_id, reqs[p].args.actual_birth_date,
                       reqs[p].args.number_of_piglets, reqs[p].old)
  /\ reqs' = [reqs EXCEPT ![p].pc = "done", ![p].writes = @ + 1]
  /\ UNCHANGED <<alerts, notifications, pigs, piglet_records,
                 pig_birth_history, last, calls>>

\* ---- a statement that writes fails: the error reaches the catch block,
\* which logs it and throws it again
WritePcs == {"insert", "alert", "notify", "pigs", "complete", "update"}

statementFails(p) ==
  /\ reqs[p].pc \in WritePcs
  /\ reqs' = [reqs EXCEPT ![p].pc = "failed"]
  /\ UNCHANGED <<tables, last, calls>>

StepMatingRequests ==
  {r \in MatingRequests :
     r.farm_id = "F1" /\ r.sow_id = "S1" /\ r.boar_id = "B1"
     /\ r.immediate_notify_date # INVALID}

NextSteps ==
  \E p \in Requests :
    \/ \E r \in StepMatingRequests : beginMating(p, r)
    \/ selectSow(p)
    \/ selectBoar(p)
    \/ selectRecentService(p)
    \/ insertRecord(p)
    \/ selectPen(p)
    \/ insertAlert(p)
    \/ \E recordId \in RecordIds, r \in BirthRequests :
         beginBirth(p, recordId, "F1", r)
    \/ selectRecord(p)
    \/ selectPastRecords(p)
    \/ insertCullingNotification(p)
    \/ updatePig(p)
    \/ updateAlerts(p)
    \/ updateRecord(p)
    \/ statementFails(p)

SpecSteps == Init /\ [][NextSteps]_vars

\* ------------------------------------- one request after another, stepwise
\* Sow S1 with no litter, one litter or three small litters; one request
\* slot serves matings and birth outcomes one after another, a statement a
\* step, and hands the slot back when the handler returns or throws.
OrderHistories == {<<>>, <<6>>, <<4, 3, 4>>}

InitOrder == InitAfter(OrderHistories)

mateStepwise ==
  /\ calls < MaxLaterCalls
  /\ \E m \in {at(lastFarrowing + 48, 23), at(lastFarrowing + 49, 0)} :
       \E notify \in {NULL, addDays(m, 1)} :
         beginMating(1, MatingRequest("F1", "S1", "B1", m, addDays(m, 114),
                                      notify))

farrowStepwise ==
  /\ calls < MaxLaterCalls
  /\ \E recordId \in RecordIds, n \in LitterSizes :
       beginBirth(1, recordId, "F1",
         [actual_birth_date |->
            IF recordId \in DOMAIN breeding_records
            THEN at(breeding_records[recordId].mating_date + FarrowingDay, 6)
            ELSE at(FarrowingDay, 6),
          number_of_piglets |-> n])

\* return breedingRecord / return updatedRecord, or throw error from the
\* catch block (the class of the error is not kept)
returnCall(p) ==
  /\ reqs[p].pc \in {"done", "failed"}
  /\ LET rec == IF reqs[p].op = "createBreedingRecord" THEN reqs[p].rec
                ELSE reqs[p].args.recordId
     IN last' = IF reqs[p].pc = "done" THEN Returned(reqs[p].op, rec)
                ELSE [Thrown(reqs[p].op, "", 0) EXCEPT !.err = "Error"]
  /\ calls' = calls + 1
  /\ reqs' = [reqs EXCEPT ![p] = Idle]
  /\ UNCHANGED tables

NextOrder ==
  \/ mateStepwise
  \/ farrowStepwise
  \/ selectSow(1)
  \/ selectBoar(1)
  \/ selectRecentService(1)
  \/ insertRecord(1)
  \/ selectPen(1)
  \/ insertAlert(1)
  \/ selectRecord(1)
  \/ selectPastRecords(1)
  \/ insertCullingNotification(1)
  \/ updatePig(1)
  \/ updateAlerts(1)
  \/ updateRecord(1)
  \/ statementFails(1)
  \/ returnCall(1)

SpecOrder == InitOrder /\ [][NextOrder]_vars

\* ================================================================ claims
\* A step is a call of op when it changes last or calls and leaves op in
\* last; Wrote tells the calls that wrote to the tables.
Called(op) == last'.op = op /\ (last' # last \/ calls' # calls)
Wrote(op) == last'.op = op /\ last'.ok /\ calls' = calls + 1

\* the open breeding records of a sow: not deleted, no actual birth date
openRecords(sow) ==
  {i \in DOMAIN breeding_records :
     /\ breeding_records[i].sow_id = sow
     /\ breeding_records[i].is_deleted = 0
     /\ breeding_records[i].actual_birth_date = NULL}

PregnancyTypes == {"breeding", "birth"}

\* C1: in every reachable state each sow has at most one open breeding
\* record (a mating for a sow with an open record is refused).
C1_OneOpenRecordPerSow ==
  \A sow \in PigIds : Cardinality(openRecords(sow)) <= 1

\* C2: of two mating requests for the same sow whose eligibility reads both
\* come before either insert, at most one creates a breeding record.
C2_OneMatingWins ==
  \A p \in Requests : \A q \in Requests \ {p} :
    ~(/\ reqs[p].op = "createBreedingRecord"
      /\ reqs[q].op = "createBreedingRecord"
      /\ reqs[p].sow = reqs[q].sow
      /\ reqs[p].raced
      /\ reqs[p].rec # 0 /\ reqs[q].rec # 0
      /\ reqs[p].pc = "done" /\ reqs[q].pc = "done")

\* C3: a mating or birth-outcome call that fails partway leaves none of
\* its writes behind.
C3_FailedCallLeavesNothing ==
  \A p \in Requests : reqs[p].pc = "failed" => reqs[p].writes = 0

\* C4: after a birth outcome is recorded for a sow, every alert of the sow
\* of type breeding or birth that was pending before the call is completed.
C4_BirthCompletesPendingAlerts ==
  [][(Wrote("updateBreedingRecord") /\ Len(alerts') # Len(alerts)) =>
       \A i \in DOMAIN alerts :
         (/\ alerts[i].pig_id = breeding_records[last'.rec].sow_id
          /\ alerts[i].alert_type \in PregnancyTypes
          /\ alerts[i].status = "pending")
         => alerts'[i].status = "completed"]_vars

\* C5: recording a birth outcome for a record of sow S changes no alert
\* whose subject pig is another sow, of the same farm or of another farm.
C5_BirthLeavesOtherSows ==
  [][Wrote("updateBreedingRecord") =>
       /\ Len(alerts') >= Len(alerts)
       /\ \A i \in DOMAIN alerts :
            alerts[i].pig_id # breeding_records[last'.rec].sow_id
            => alerts'[i] = alerts[i]]_vars

\* C5 witness: a birth was recorded, alerts of the sow were completed, and
\* pending alerts of a sow of the same farm and of a sow of another farm
\* are still there.
C5_Witness ==
  /\ last.op = "updateBreedingRecord" /\ last.ok
  /\ LET sow == breeding_records[last.rec].sow_id
     IN /\ \E i \in DOMAIN alerts :
             alerts[i].pig_id = sow /\ alerts[i].status = "completed"
        /\ \E i \in DOMAIN alerts :
             /\ alerts[i].pig_id # sow
             /\ alerts[i].farm_id = breeding_records[last.rec].farm_id
             /\ alerts[i].alert_type = "breeding"
             /\ alerts[i].status = "pending"

\* C6: a birth outcome for a record that is already resolved is refused
\* and changes nothing.
C6_ResolvedRecordRefusesBirth ==
  [][(/\ Called("updateBreedingRecord")
      /\ last'.rec \in DOMAIN breeding_records
      /\ breeding_records[last'.rec].is_deleted = 0
      /\ breeding_records[last'.rec].actual_birth_date # NULL)
     => (~last'.ok /\ UNCHANGED tables)]_vars

\* the starts of the alerts of a mating of day m, in creation order
matingStarts(m) ==
  <<m, m + 110, m + 110, m + 111, m + 112, m + 113, m + 114>>

\* C7: a successful mating of UTC day M persists one breeding record with
\* alert_date = M + 21 and seven pending alerts of the sow: the confirmation
\* at M, the nesting box at M + 110, the birth checks at M + 110..M + 114.
C7_MatingCascade ==
  [][Wrote("createBreedingRecord") =>
       LET id == last'.rec
           r == breeding_records'[id]
           n == Len(alerts)
       IN /\ Len(breeding_records') = Len(breeding_records) + 1
          /\ id = Len(breeding_records')
          /\ SubSeq(breeding_records', 1, id - 1) = breeding_records
          /\ r.alert_date = r.mating_date + 21
          /\ r.actual_birth_date = NULL /\ r.is_deleted = 0
          /\ Len(alerts') = n + 7
          /\ SubSeq(alerts', 1, n) = alerts
          /\ \A k \in 1..7 :
               /\ alerts'[n + k].pig_id = r.sow_id
               /\ alerts'[n + k].farm_id = r.farm_id
               /\ alerts'[n + k].status = "pending"
               /\ alerts'[n + k].alert_start_date =
                    matingStarts(r.mating_date)[k]
               /\ alerts'[n + k].name =
                    IF k = 1 THEN "Breeding Success"
                    ELSE IF k = 2 THEN "Add Nesting Box"
                    ELSE "Check Birth"]_vars

\* C7 witness: a mating submitted at 09:00 of day 170 has been recorded; its
\* last birth check is due on day 284.
C7_Witness ==
  /\ last.op = "createBreedingRecord" /\ last.ok
  /\ breeding_records[last.rec].mating_date = 170
  /\ breeding_records[last.rec].alert_date = 191
  /\ Len(alerts) >= 7
  /\ alerts[Len(alerts)].alert_start_date = 284
  /\ alerts[Len(alerts)].status = "pending"
  /\ alerts[Len(alerts)].rec = last.rec

\* C8: deleting an unresolved breeding record moves every pending breeding
\* or birth alert of its mating to rejected and none to completed; no alert
\* of the mating is pending afterwards.
C8_DeleteRejectsAlerts ==
  [][(/\ Wrote("deleteBreedingRecord")
      /\ breeding_records[last'.rec].actual_birth_date = NULL)
     => /\ Len(alerts') = Len(alerts)
        /\ \A i \in DOMAIN alerts :
             (alerts[i].rec = last'.rec
              /\ alerts[i].alert_type \in PregnancyTypes)
             => /\ alerts'[i].status # "pending"
                /\ alerts[i].status = "pending"
                   => alerts'[i].status = "rejected"
                /\ alerts[i].status # "pending"
                   => alerts'[i].status = alerts[i].status]_vars

\* C8 witness: an unresolved record was deleted and the seven alerts of its
\* mating are rejected.
C8_Witness ==
  /\ last.op = "deleteBreedingRecord" /\ last.ok
  /\ breeding_records[last.rec].actual_birth_date = NULL
  /\ Cardinality({i \in DOMAIN alerts :
                    alerts[i].rec = last.rec
                    /\ alerts[i].status = "rejected"}) = 7

\* C9: deleting a resolved breeding record is refused: the record stays
\* not deleted and its piglet records are not soft-removed.
C9_ResolvedRecordRefusesDelete ==
  [][(/\ Called("deleteBreedingRecord")
      /\ last'.rec \in DOMAIN breeding_records
      /\ breeding_records[last'.rec].is_deleted = 0
      /\ breeding_records[last'.rec].actual_birth_date # NULL)
     => /\ ~last'.ok
        /\ breeding_records'[last'.rec].is_deleted = 0
        /\ piglet_records' = piglet_records]_vars

\* C10: deleting a record that is already soft-deleted fails with a
\* NotFoundError and leaves every table unchanged.
C10_DeletedRecordNotFound ==
  [][(/\ Called("deleteBreedingRecord")
      /\ last'.rec \in DOMAIN breeding_records
      /\ breeding_records[last'.rec].is_deleted = 1)
     => (~last'.ok /\ last'.err = "NotFoundError" /\ UNCHANGED tables)]_vars

\* C11: for sow S1 with last farrowing day D, a mating whose day is before
\* D + 49 is refused with a ValidationError and changes nothing; a mating
\* of day D + 49 or later is recorded.
C11_RestPeriodGuard ==
  [][\A m \in {at(lastFarrowing + 48, 23), at(lastFarrowing + 49, 0),
                at(lastFarrowing + 50, 0)} :
       (/\ resolvedRecords(breeding_records, "S1", "F1") # {}
        /\ createBreedingRecord("F1", "S1", "B1", m, addDays(m, 114), NULL))
       => IF getUTCDateString(m) < lastFarrowing + 49
          THEN /\ ~last'.ok
               /\ last'.err = "ValidationError"
               /\ UNCHANGED tables
          ELSE /\ last'.ok
               /\ Len(breeding_records') = Len(breeding_records) + 1
               /\ breeding_records'[last'.rec].mating_date =
                    getUTCDateString(m)]_vars

\* C11 witness: a mating of exactly the 49th day after the sow's last
\* farrowing has been recorded.
C11_Witness ==
  /\ last.op = "createBreedingRecord" /\ last.ok
  /\ resolvedRecords(breeding_records, "S1", "F1") # {}
  /\ breeding_records[last.rec].sow_id = "S1"
  /\ breeding_records[last.rec].mating_date = lastFarrowing + 49

\* the record a birth-outcome call is about was open when the call began
BirthOnOpenRecord ==
  /\ Wrote("updateBreedingRecord")
  /\ breeding_records[last'.rec].actual_birth_date = NULL

\* the litter size a birth-outcome call on an open record submitted
submittedLitter ==
  IF breeding_records'[last'.rec].number_of_piglets = NULL THEN 0
  ELSE breeding_records'[last'.rec].number_of_piglets

\* the culling notifications a step appended
newNotifications ==
  {notifications'[k] : k \in (Len(notifications) + 1)..Len(notifications')}

\* the resolved litters of a sow with a non-zero size
historicalLitters(sow) ==
  {i \in DOMAIN breeding_records :
     /\ breeding_records[i].sow_id = sow
     /\ breeding_records[i].is_deleted = 0
     /\ breeding_records[i].actual_birth_date # NULL
     /\ breeding_records[i].number_of_piglets # NULL
     /\ breeding_records[i].number_of_piglets > 0}

\* Rule A as specified: the three most recent non-zero litters exist and
\* are all below 5
chronicLowYield(sow) ==
  LET H == historicalLitters(sow)
      top == {i \in H :
                Cardinality({j \in H : breeding_records[j].actual_birth_date
                               > breeding_records[i].actual_birth_date}) < 3}
  IN /\ Cardinality(H) >= 3
     /\ \A i \in top : breeding_records[i].number_of_piglets < 5

\* C12: a birth outcome for which Rule A (three historical litters all
\* below 5) and Rule B (current litter below 5 or above 10) both hold
\* produces a high-priority notification for each of the two rules.
C12_BothCullingRulesFire ==
  [][(/\ BirthOnOpenRecord
      /\ chronicLowYield(breeding_records[last'.rec].sow_id)
      /\ (submittedLitter < 5 \/ submittedLitter > 10))
     => /\ Cardinality(newNotifications) = 2
        /\ \A nt \in newNotifications : nt.priority = "high"]_vars

\* C13: a birth outcome with a litter below 5 (0 included) or above 10
\* produces at least one high-priority culling notification naming the
\* sow; with a litter of 5..10 and Rule A not holding it produces none.
C13_OutOfRangeLitterNotified ==
  [][BirthOnOpenRecord =>
       LET sow == breeding_records[last'.rec].sow_id
       IN IF submittedLitter < 5 \/ submittedLitter > 10
          THEN \E nt \in newNotifications :
                 /\ nt.type = "culling_alert"
                 /\ nt.priority = "high"
                 /\ nt.sow_id = sow
          ELSE chronicLowYield(sow) \/ newNotifications = {}]_vars

\* C14: a birth outcome with a non-zero litter raises the three-generation
\* notification exactly when the sow's three most recent non-zero
\* historical litters exist and are all below 5 (zero or missing sizes are
\* skipped before the three are taken).
C14_RuleAOverNonZeroLitters ==
  [][(BirthOnOpenRecord /\ submittedLitter > 0)
     => ((\E nt \in newNotifications :
            nt.reason = "low litter size over 3 generations")
         <=> chronicLowYield(breeding_records[last'.rec].sow_id))]_vars

\* C15: every successful birth outcome with birth day B appends exactly
\* three pending alerts of the sow, due on B + 4, B + 20 and B + 42.
C15_PostBirthAlerts ==
  [][(/\ BirthOnOpenRecord
      /\ breeding_records'[last'.rec].actual_birth_date # NULL)
     => LET B == breeding_records'[last'.rec].actual_birth_date
            n == Len(alerts)
        IN /\ Len(alerts') = n + 3
           /\ \A k \in 1..3 :
                /\ alerts'[n + k].pig_id = breeding_records[last'.rec].sow_id
                /\ alerts'[n + k].status = "pending"
                /\ alerts'[n + k].alert_start_date =
                     <<B + 4, B + 20, B + 42>>[k]]_vars

\* C16: an alert that is completed or rejected keeps its status in every
\* later step: no birth outcome and no delete changes it.
C16_ResolvedAlertsAreTerminal ==
  [][\A i \in DOMAIN alerts :
       alerts[i].status \in {"completed", "rejected"}
       => /\ i \in DOMAIN alerts'
          /\ alerts'[i].status = alerts[i].status]_vars

\* C16 witness: an open record of a sow was deleted, the pending alerts of
\* the sow were rejected by it, and the alerts completed by her earlier
\* farrowing are still completed.
C16_Witness ==
  /\ last.op = "deleteBreedingRecord" /\ last.ok
  /\ breeding_records[last.rec].actual_birth_date = NULL
  /\ LET sow == breeding_records[last.rec].sow_id
     IN /\ \E i \in DOMAIN alerts :
             /\ alerts[i].pig_id = sow
             /\ alerts[i].rec = last.rec
             /\ alerts[i].status = "rejected"
        /\ \E i \in DOMAIN alerts :
             /\ alerts[i].pig_id = sow
             /\ alerts[i].alert_type = "breeding"
             /\ alerts[i].status = "completed"

\* C17: in every reachable state the non-deleted piglet records of a
\* breeding record number at most its number_of_piglets + 1.
C17_LitterSizeTolerance ==
  \A id \in DOMAIN breeding_records :
    pigletCount(piglet_records, id) <=
      (IF breeding_records[id].number_of_piglets = NULL THEN 0
       ELSE breeding_records[id].number_of_piglets) + 1

\* C18: in every reachable state no two non-deleted piglet records of one
\* farm carry the same piglet number.
C18_PigletNumberUnique ==
  \A i \in DOMAIN piglet_records : \A j \in DOMAIN piglet_records :
    (/\ i # j
     /\ piglet_records[i].is_deleted = 0
     /\ piglet_records[j].is_deleted = 0
     /\ piglet_records[i].farm_id = piglet_records[j].farm_id)
    => piglet_records[i].piglet_number # piglet_records[j].piglet_number

\* C19: a registerLitter call that fails returns success: false and
\* persists nothing: no piglet record, no birth-history row, no alert.
C19_FailedBatchPersistsNothing ==
  [][(Called("createPigletRecord") /\ ~last'.ok)
     => /\ last'.err = "success: false"
        /\ piglet_records' = piglet_records
        /\ pig_birth_history' = pig_birth_history
        /\ alerts' = alerts]_vars

\* the non-deleted birth-history rows of a breeding record
historyRows(id) ==
  {i \in DOMAIN pig_birth_history :
     /\ pig_birth_history[i].breeding_record_id = id
     /\ pig_birth_history[i].is_deleted = 0}

\* C20: in every reachable state a breeding record has at most one
\* non-deleted birth-history row.
C20_OneHistoryRowPerRecord ==
  \A id \in DOMAIN breeding_records : Cardinality(historyRows(id)) <= 1

\* C20 witness: two batches were registered for one breeding record (each
\* left its relocate alert) and the record has one birth-history row.
C20_Witness ==
  /\ last.op = "createPigletRecord" /\ last.ok
  /\ Cardinality(historyRows(last.rec)) = 1
  /\ pigletCount(piglet_records, last.rec) = 7
  /\ Cardinality({i \in DOMAIN alerts :
                    /\ alerts[i].name = "Relocate Piglets"
                    /\ alerts[i].rec = last.rec}) = 2

\* the relocate alerts created for a breeding record
relocateAlerts(id) ==
  {i \in DOMAIN alerts :
     alerts[i].name = "Relocate Piglets" /\ alerts[i].rec = id}

\* C21: in every reachable state at most one relocate-piglets alert has
\* been created for a breeding record (a later batch creates none).
C21_OneRelocateAlertPerRecord ==
  \A id \in DOMAIN breeding_records : Cardinality(relocateAlerts(id)) <= 1

\* C22: every piglet record a registerLitter call creates has weaning date
\* = actual birth date of its breeding record + 42 days.
C22_WeaningFromRecordBirthDate ==
  [][Called("createPigletRecord") =>
       \A k \in (Len(piglet_records) + 1)..Len(piglet_records') :
         LET id == piglet_records'[k].breeding_record_id
         IN /\ breeding_records[id].actual_birth_date # NULL
            /\ piglet_records'[k].weaning_date =
                 breeding_records[id].actual_birth_date + 42]_vars

\* the notify-on convention: never empty; one date for the confirmation
\* alert, the day before and the day of the start date for any other
notifyOnConvention(a) ==
  /\ a.notify_on # {}
  /\ IF a.name = "Breeding Success" THEN Cardinality(a.notify_on) = 1
     ELSE a.notify_on = {a.alert_start_date - 1, a.alert_start_date}

\* C23: every alert has a non-empty notify-on set of UTC days: {D - 1, D}
\* for its start day D, except the confirmation alert of a mating, which
\* has the single day of the caller's override or, without one, the
\* mating day.
C23_NotifyOnConvention ==
  [][/\ \A i \in DOMAIN alerts : notifyOnConvention(alerts[i])
     /\ \A i \in DOMAIN alerts' : notifyOnConvention(alerts'[i])
     /\ LET m == at(lastFarrowing + 49, 9)
        IN \A notify \in {NULL, addDays(m, 1)} :
             (/\ createBreedingRecord("F1", "S1", "B1", m, addDays(m, 114),
                                      notify)
              /\ last'.ok)
             => alerts'[Len(alerts) + 1].notify_on =
                  {IF notify = NULL THEN getUTCDateString(m)
                   ELSE getUTCDateString(notify)}]_vars

\* C23 witness: a mating was recorded with an override, and its
\* confirmation alert is notified on the day after the mating day only.
C23_Witness ==
  /\ last.op = "createBreedingRecord" /\ last.ok
  /\ \E i \in DOMAIN alerts :
       /\ alerts[i].rec = last.rec
       /\ alerts[i].name = "Breeding Success"
       /\ alerts[i].notify_on = {breeding_records[last.rec].mating_date + 1}
  /\ \E i \in DOMAIN alerts : alerts[i].name = "Relocate Piglets"

\* the request of the slot SpecOrder serves, and the writes it has made
theCall == reqs[1]

\* 1 when the birth outcome of the call raises a culling notification
cullingWrites == IF theCall.reason = "none" THEN 0 ELSE 1

\* the step is the w-th write of the call (counted from 0)
WriteNo(w) ==
  theCall.writes = w /\ reqs'[1].writes = w + 1

\* the step inserts one pending alert for record id and changes no other
InsertsAlert(id) ==
  /\ Len(alerts') = Len(alerts) + 1
  /\ \A i \in DOMAIN alerts : alerts'[i] = alerts[i]
  /\ alerts'[Len(alerts')].rec = id
  /\ alerts'[Len(alerts')].status = "pending"

\* C24: the writes of one birth outcome come in the order culling
\* notification, sow update, completion of the sow's pending alerts, the
\* three post-birth alerts, record update, and the three post-birth alerts
\* are pending when the call returns; the first write of a mating is the
\* record insert and every later one inserts an alert of that record.
C24_WriteOrder ==
  [][LET q == theCall
         c == cullingWrites
         cascade == /\ q.op = "updateBreedingRecord"
                    /\ birthCascade(q.args.actual_birth_date,
                                    q.args.number_of_piglets)
     IN /\ (cascade /\ c = 1 /\ WriteNo(0))
           => /\ Len(notifications') = Len(notifications) + 1
              /\ UNCHANGED <<breeding_records, alerts, pigs>>
        /\ (cascade /\ WriteNo(c))
           => /\ pigs' = clearPregnancyAtBirth(pigs, q.sow, q.args.farm_id,
                                               q.args.actual_birth_date)
              /\ UNCHANGED <<breeding_records, alerts, notifications>>
        /\ (cascade /\ WriteNo(c + 1))
           => /\ alerts' = completePregnancyAlerts(alerts, q.sow)
              /\ UNCHANGED <<breeding_records, pigs, notifications>>
        /\ (cascade /\ \E w \in (c + 2)..(c + 4) : WriteNo(w))
           => /\ InsertsAlert(q.args.recordId)
              /\ alerts'[Len(alerts')].alert_type = "birth"
              /\ UNCHANGED <<breeding_records, pigs, notifications>>
        /\ (cascade /\ WriteNo(c + 5))
           => /\ breeding_records'[q.args.recordId].actual_birth_date # NULL
              /\ UNCHANGED <<alerts, pigs, notifications>>
        /\ (cascade /\ q.pc = "done" /\ reqs'[1].pc = "idle")
           => /\ q.writes = c + 6
              /\ \A i \in (Len(alerts) - 2)..Len(alerts) :
                   /\ alerts[i].rec = q.args.recordId
                   /\ alerts[i].alert_type = "birth"
                   /\ alerts[i].status = "pending"
        /\ (q.op = "createBreedingRecord" /\ WriteNo(0))
           => /\ Len(breeding_records') = Len(breeding_records) + 1
              /\ UNCHANGED <<alerts, pigs, notifications>>
        /\ (q.op = "createBreedingRecord" /\ alerts' # alerts)
           => /\ q.writes >= 1
              /\ q.rec \in DOMAIN breeding_records
              /\ InsertsAlert(q.rec)
              /\ UNCHANGED <<breeding_records, pigs, notifications>>]_vars

\* C24 witness: a birth outcome that raised a culling notification has
\* made its seven writes and is about to return, after a mating that was
\* recorded statement by statement.
C24_Witness ==
  /\ theCall.op = "updateBreedingRecord" /\ theCall.pc = "done"
  /\ cullingWrites = 1 /\ theCall.writes = 7
  /\ last.op = "createBreedingRecord" /\ last.ok
  /\ theCall.args.recordId = last.rec

\* C25: a mating refused by a precondition fails with a ValidationError and
\* changes no table: no record, no alert, no existing row.
C25_RefusedMatingPersistsNothing ==
  [][(Called("createBreedingRecord") /\ ~last'.ok)
     => (last'.err = "ValidationError" /\ UNCHANGED tables)]_vars

\* C25 witness: a mating was refused while the tables held a resolved
\* record of sow S1 and the alerts of its mating and birth.
C25_Witness ==
  /\ last.op = "createBreedingRecord" /\ ~last.ok
  /\ resolvedRecords(breeding_records, "S1", "F1") # {}
  /\ Len(alerts) = 10
  /\ Len(breeding_records) = 1

\* C26: the litter size supplied to a birth outcome is one of the values
\* Rule A is decided on: a litter of 5 or more never raises the
\* three-generation notification.
C26_RuleACountsNewLitter ==
  [][(BirthOnOpenRecord /\ submittedLitter >= 5)
     => ~\E nt \in newNotifications :
           nt.reason = "low litter size over 3 generations"]_vars

\* C27: a batch of one entry that carries a piglet number and a breeding
\* record but no parent ids is accepted whenever the record is found, the
\* litter-size check passes and the number is not in use.
C27_ParentsAreOptional ==
  [][\A id \in RecordIds, farm \in Farms, now \in Clock :
       LET b == <<PigletEntry(id, 1, NoId, at(121, 6))>>
       IN (/\ createPigletRecord(b, farm, now)
           /\ recordFound(breeding_records, id, farm)
           /\ ~exceedsLitter(breeding_records, piglet_records, b, id)
           /\ duplicateNumbers(piglet_records, b, farm) = {})
          => /\ last'.ok
             /\ Len(piglet_records') = Len(piglet_records) + 1]_vars

\* C28: the call that sets the actual birth date of a record runs the
\* birth cascade: it completes the sow's pending breeding alerts and
\* creates the three post-birth alerts.
C28_ResolvedMeansCascade ==
  [][(/\ Wrote("updateBreedingRecord")
      /\ breeding_records[last'.rec].actual_birth_date = NULL
      /\ breeding_records'[last'.rec].actual_birth_date # NULL)
     => /\ Len(alerts') = Len(alerts) + 3
        /\ \A i \in DOMAIN alerts :
             (/\ alerts[i].pig_id = breeding_records[last'.rec].sow_id
              /\ alerts[i].alert_type = "breeding"
              /\ alerts[i].status = "pending")
             => alerts'[i].status = "completed"]_vars

\* C29: deleting an unresolved record changes no alert that was created
\* for another breeding record, of the same sow or of another.
C29_DeleteLeavesOtherMatings ==
  [][(/\ Wrote("deleteBreedingRecord")
      /\ breeding_records[last'.rec].actual_birth_date = NULL)
     => \A i \in DOMAIN alerts :
          alerts[i].rec # last'.rec => alerts'[i] = alerts[i]]_vars

\* C30: in every reachable state a non-deleted piglet record references a
\* non-deleted breeding record of its own farm.
C30_PigletsReferenceLiveRecords ==
  \A i \in DOMAIN piglet_records :
    piglet_records[i].is_deleted = 0
    => /\ piglet_records[i].breeding_record_id \in DOMAIN breeding_records
       /\ LET r == breeding_records[piglet_records[i].breeding_record_id]
          IN r.is_deleted = 0 /\ r.farm_id = piglet_records[i].farm_id

\* C30 witness: a breeding record with registered piglets was deleted and
\* its piglet records are soft-removed.
C30_Witness ==
  /\ last.op = "deleteBreedingRecord" /\ last.ok
  /\ breeding_records[last.rec].is_deleted = 1
  /\ \E i \in DOMAIN piglet_records :
       /\ piglet_records[i].breeding_record_id = last.rec
       /\ piglet_records[i].is_deleted = 1

====
